---- MODULE Spec2Model ----
(***************************************************************************)
(* A model of go-netty: the handler pipeline (pipeline.go) and the         *)
(* bootstrap / listener lifecycle (bootstrap.go, transport/tcp/factory.go).*)
(*                                                                         *)
(* SpecPipeline  : one pipeline and the calls of its public interface.     *)
(* SpecBootstrap : one bootstrap, its listeners and the goroutines that    *)
(*                 run Sync, Close and Shutdown on them, step by step.     *)
(***************************************************************************)
EXTENDS Integers, Sequences, FiniteSets, TLC

VARIABLES
    ctx,        \* the handlerContext objects allocated so far: id -> [handler, prev, next]
    p,          \* the pipeline struct: [head, tail, channel, size]
    served,     \* the channels whose serveChannel() has been invoked, in order
    last,       \* the last call made on the pipeline, its arguments, pre-state and result
    bs,         \* the bootstrap: [cancelled, listeners (the sync.Map url -> Listener)]
    lsn,        \* the listener objects created by Listen: id -> [url, options, acceptor]
    acc,        \* the tcpAcceptor objects created by Listen of the factory
    tr,         \* the transports returned by Accept
    gor,        \* the calls of Sync, Close and Shutdown, each on its goroutine
    exc         \* the value given to AsException and what was made of it

pipelineVars == <<ctx, p, served, last>>

bootstrapVars == <<bs, lsn, acc, tr, gor>>

exceptionVars == <<exc>>

vars == <<ctx, p, served, last, bs, lsn, acc, tr, gor, exc>>

(***************************************************************************)
(* Bounds of the model.                                                    *)
(***************************************************************************)
MaxSize == 5        \* Add* calls are made while size + len(handlers) <= MaxSize
MaxArgs == 2        \* longest handler list passed to one Add* call

(***************************************************************************)
(* Values.                                                                 *)
(***************************************************************************)
NilCtx == 0                     \* a nil *handlerContext
NilChannel == "nil"             \* a nil Channel
Channels == {"c1", "c2"}

\* The six handler capabilities checkHandler recognises.
Capabilities == {"Active", "Inbound", "Outbound", "Exception", "Inactive", "Event"}

\* The user handlers of the model, and the interfaces each one implements.
\* hNone implements none of them.
Handlers == {"h1", "h2", "hNone"}

CapsOf(h) ==
    CASE h = "h1" -> {"Active", "Inbound", "Exception"}
      [] h = "h2" -> {"Outbound", "Inactive", "Event"}
      [] h = "hNone" -> {}
      [] OTHER -> Capabilities      \* headHandler, tailHandler

\* h2 consumes custom events (its HandleEvent does not forward); every other
\* handler method of the model forwards what it receives.
Forwards(h, capability) == ~(h = "h2" /\ capability = "Event")

RECURSIVE SeqsUpTo(_, _)
SeqsUpTo(S, n) ==
    IF n = 0 THEN {<<>>}
    ELSE LET shorter == SeqsUpTo(S, n - 1)
         IN  shorter \cup {Append(s, x) : s \in {t \in shorter : Len(t) = n - 1}, x \in S}

HandlerLists == SeqsUpTo(Handlers, MaxArgs)

NoErr == [kind |-> "ok", index |-> -1]
ConfigErr(kind, index) == [kind |-> kind, index |-> index]

(***************************************************************************)
(* pipeline.go                                                             *)
(***************************************************************************)

\* NewPipelineWith: head and tail sentinels linked to each other, size 2.
NewPipelineWith ==
    [ctx |-> << [handler |-> "headHandler", prev |-> NilCtx, next |-> 2],
                [handler |-> "tailHandler", prev |-> 1, next |-> NilCtx] >>,
     p   |-> [head |-> 1, tail |-> 2, channel |-> NilChannel, size |-> 2]]

\* The type switch of checkHandler: does h implement one of the six interfaces?
Recognized(h) ==
    \/ "Active" \in CapsOf(h)
    \/ "Inbound" \in CapsOf(h)
    \/ "Outbound" \in CapsOf(h)
    \/ "Exception" \in CapsOf(h)
    \/ "Inactive" \in CapsOf(h)
    \/ "Event" \in CapsOf(h)

\* A checkHandler that goes through the whole list and reports the last
\* handler it does not recognise.
checkHandlerReportsLast(handlers) ==
    LET bad == {i \in 1..Len(handlers) : ~Recognized(handlers[i])}
    IN  IF bad = {} THEN NoErr
        ELSE ConfigErr("unrecognized Handler",
                       (CHOOSE i \in bad : \A j \in bad : i >= j) - 1)

\* checkHandler: panics at the first handler the type switch does not recognise,
\* with that handler's (0-based) index in the message.
checkHandler(handlers) ==
    LET bad == {i \in 1..Len(handlers) : ~Recognized(handlers[i])}
    IN  IF bad = {} THEN NoErr
        ELSE ConfigErr("unrecognized Handler",
                       (CHOOSE i \in bad : \A j \in bad : i <= j) - 1)

\* The splice shared by addFirst, addLast and the loop of AddHandler: a new
\* context for handler h between the contexts before and after.
\* The new context is the next object allocated.
Splice(c, before, after, h) ==
    LET n == Len(c) + 1
    IN  Append([c EXCEPT ![before].next = n, ![after].prev = n],
               [handler |-> h, prev |-> before, next |-> after])

\* addFirst: a new context right after head.
addFirst(st, handler) ==
    LET oldNext == st.ctx[st.p.head].next
    IN  [ctx |-> Splice(st.ctx, st.p.head, oldNext, handler),
         p   |-> [st.p EXCEPT !.size = @ + 1]]

\* An addLast that leaves out "oldPrev.next = p.tail.prev".
addLastWithoutForwardLink(st, handler) ==
    LET oldPrev == st.ctx[st.p.tail].prev
        n == Len(st.ctx) + 1
    IN  [ctx |-> Append([st.ctx EXCEPT ![st.p.tail].prev = n],
                        [handler |-> handler, prev |-> oldPrev, next |-> st.p.tail]),
         p   |-> [st.p EXCEPT !.size = @ + 1]]

\* addLast: a new context right before tail.
addLast(st, handler) ==
    LET oldPrev == st.ctx[st.p.tail].prev
    IN  [ctx |-> Splice(st.ctx, oldPrev, st.p.tail, handler),
         p   |-> [st.p EXCEPT !.size = @ + 1]]

\* The loop of AddFirst run over the handlers from the last to the first.
RECURSIVE addFirstAllBackwards(_, _)
addFirstAllBackwards(st, handlers) ==
    IF handlers = <<>> THEN st
    ELSE addFirstAllBackwards(addFirst(st, handlers[Len(handlers)]),
                              SubSeq(handlers, 1, Len(handlers) - 1))

\* The loop "for _, h := range handlers { p.addFirst(h) }".
RECURSIVE addFirstAll(_, _)
addFirstAll(st, handlers) ==
    IF handlers = <<>> THEN st
    ELSE addFirstAll(addFirst(st, Head(handlers)), Tail(handlers))

\* The loop of AddLast run over the handlers from the last to the first.
RECURSIVE addLastAllBackwards(_, _)
addLastAllBackwards(st, handlers) ==
    IF handlers = <<>> THEN st
    ELSE addLastAllBackwards(addLast(st, handlers[Len(handlers)]),
                             SubSeq(handlers, 1, Len(handlers) - 1))

\* The loop "for _, h := range handlers { p.addLast(h) }".
RECURSIVE addLastAll(_, _)
addLastAll(st, handlers) ==
    IF handlers = <<>> THEN st
    ELSE addLastAll(addLast(st, Head(handlers)), Tail(handlers))

\* utils.AssertIf(cond, ...): panics when cond holds; the call it guards
\* fails and the statements after it do not run.
AssertIf(cond) == cond

\* The result of a call: the state it leaves and the error it fails with.
Result(st, err) == [ctx |-> st.ctx, p |-> st.p, err |-> err]

\* AddFirst(handlers...)
AddFirstCall(st, handlers) ==
    IF checkHandler(handlers) # NoErr THEN Result(st, checkHandler(handlers))
    ELSE Result(addFirstAll(st, handlers), NoErr)

\* AddLast(handlers...)
AddLastCall(st, handlers) ==
    IF checkHandler(handlers) # NoErr THEN Result(st, checkHandler(handlers))
    ELSE Result(addLastAll(st, handlers), NoErr)

\* "for i := 0; i < position; i++ { curNode = curNode.next }" from curNode.
RECURSIVE WalkNext(_, _, _)
WalkNext(c, curNode, steps) ==
    IF steps <= 0 \/ curNode = NilCtx THEN curNode
    ELSE WalkNext(c, c[curNode].next, steps - 1)

\* An insertion loop that leaves out "curNode = curNode.next": every handler
\* goes right after the context the walk stopped at.
RECURSIVE insertAfterWithoutAdvance(_, _, _)
insertAfterWithoutAdvance(st, curNode, handlers) ==
    IF handlers = <<>> THEN st
    ELSE LET oldNext == st.ctx[curNode].next
             st2 == [ctx |-> Splice(st.ctx, curNode, oldNext, Head(handlers)),
                     p   |-> [st.p EXCEPT !.size = @ + 1]]
         IN  insertAfterWithoutAdvance(st2, curNode, Tail(handlers))

\* The insertion loop of AddHandler: each handler after curNode, which advances.
RECURSIVE insertAfter(_, _, _)
insertAfter(st, curNode, handlers) ==
    IF handlers = <<>> THEN st
    ELSE LET oldNext == st.ctx[curNode].next
             st2 == [ctx |-> Splice(st.ctx, curNode, oldNext, Head(handlers)),
                     p   |-> [st.p EXCEPT !.size = @ + 1]]
         IN  insertAfter(st2, Len(st.ctx) + 1, Tail(handlers))

\* A position check that lets position = size through.
InvalidPositionOffByOne(st, position) == position > st.p.size

\* The position check of AddHandler: utils.AssertIf(position >= p.size, ...).
InvalidPosition(st, position) == position >= st.p.size

\* A test for the AddLast positions that leaves out -1.
IsAddLastPositionWithoutMinusOne(st, position) == position = st.p.size - 1

\* The positions AddHandler hands to AddLast.
IsAddLastPosition(st, position) == -1 = position \/ position = st.p.size - 1

\* AddHandler(position, handlers...). A walk that runs off the chain
\* dereferences nil and panics; an insertion after a context without a next
\* panics at "oldNext.prev = ...", after "curNode.next = ..." has been assigned.
AddHandlerCall(st, position, handlers) ==
    IF checkHandler(handlers) # NoErr THEN Result(st, checkHandler(handlers))
    ELSE IF AssertIf(InvalidPosition(st, position))
         THEN Result(st, ConfigErr("invalid position", position))
    ELSE IF IsAddLastPosition(st, position) THEN AddLastCall(st, handlers)
    ELSE LET curNode == WalkNext(st.ctx, st.p.head, position)
             orphan == [handler |-> Head(handlers), prev |-> curNode, next |-> NilCtx]
         IN  IF curNode = NilCtx
             THEN Result(st, ConfigErr("nil pointer dereference", -1))
             ELSE IF handlers # <<>> /\ st.ctx[curNode].next = NilCtx
             THEN Result([ctx |-> Append([st.ctx EXCEPT ![curNode].next = Len(st.ctx) + 1],
                                         orphan),
                          p   |-> st.p],
                         ConfigErr("nil pointer dereference", -1))
             ELSE Result(insertAfter(st, curNode, handlers), NoErr)

\* The predicates given to IndexOf and LastIndexOf: comp(h) holds of the
\* handlers in the set comp.
Comps == {{}, {"h1"}, {"h2"}, {"h1", "h2"}, {"headHandler"}, {"tailHandler"},
          {"headHandler", "h1", "h2", "tailHandler"}}

\* The loop of IndexOf from context head with index i: the index of the first
\* context whose handler satisfies comp, -1 when the next link is nil.
RECURSIVE IndexOfFrom(_, _, _, _)
IndexOfFrom(c, head, i, comp) ==
    IF c[head].handler \in comp THEN i
    ELSE IF c[head].next = NilCtx THEN -1
    ELSE IndexOfFrom(c, c[head].next, i + 1, comp)

\* IndexOf(comp): the scan starts at p.head with i = 0.
IndexOf(st, comp) == IndexOfFrom(st.ctx, st.p.head, 0, comp)

\* The loop of LastIndexOf from context tail with index i, along prev links.
RECURSIVE LastIndexOfFrom(_, _, _, _)
LastIndexOfFrom(c, tail, i, comp) ==
    IF c[tail].handler \in comp THEN i
    ELSE IF c[tail].prev = NilCtx THEN -1
    ELSE LastIndexOfFrom(c, c[tail].prev, i - 1, comp)

\* A LastIndexOf that starts counting at p.size.
LastIndexOfFromSize(st, comp) == LastIndexOfFrom(st.ctx, st.p.tail, st.p.size, comp)

\* LastIndexOf(comp): the scan starts at p.tail with i = p.size - 1.
LastIndexOf(st, comp) == LastIndexOfFrom(st.ctx, st.p.tail, st.p.size - 1, comp)

\* ContextAt(position): NilCtx for -1 and for positions >= size, otherwise the
\* context reached from head after position links.
ContextAtIn(st, position) ==
    IF -1 = position \/ position >= st.p.size THEN NilCtx
    ELSE WalkNext(st.ctx, st.p.head, position)

State == [ctx |-> ctx, p |-> p]

ContextAt(position) == ContextAtIn(State, position)

\* Size()
Size == p.size

\* Channel()
Channel == p.channel

\* A ServeChannel without the check for a channel already attached.
ServeChannelCallUnguarded(st, srv, channel) ==
    IF channel = NilChannel
    THEN [p |-> [st.p EXCEPT !.channel = channel], served |-> srv,
          err |-> ConfigErr("nil pointer dereference", -1)]
    ELSE [p |-> [st.p EXCEPT !.channel = channel], served |-> Append(srv, channel),
          err |-> NoErr]

\* ServeChannel(channel): the pipeline after the call, the channels serving
\* after it, and the error. With a nil channel the call of serveChannel() on
\* the nil interface panics after the assignment.
ServeChannelCall(st, srv, channel) ==
    IF AssertIf(NilChannel # st.p.channel)
    THEN [p |-> st.p, served |-> srv, err |-> ConfigErr("already attached channel", -1)]
    ELSE IF channel = NilChannel
         THEN [p |-> [st.p EXCEPT !.channel = channel], served |-> srv,
               err |-> ConfigErr("nil pointer dereference", -1)]
    ELSE [p |-> [st.p EXCEPT !.channel = channel], served |-> Append(srv, channel),
          err |-> NoErr]

\* handlerContext.Handle*: the contexts an event passes through from a
\* starting context, forward (next links) or backward (prev links). A context
\* whose handler has the capability invokes it, and the handler forwards or
\* consumes the event; a context whose handler lacks it forwards.
RECURSIVE Traverse(_, _, _, _)
Traverse(c, node, forward, capability) ==
    IF node = NilCtx THEN <<>>
    ELSE LET h == c[node].handler
             consumed == capability \in CapsOf(h) /\ ~Forwards(h, capability)
             onward == IF forward THEN c[node].next ELSE c[node].prev
         IN  IF consumed THEN <<node>>
             ELSE <<node>> \o Traverse(c, onward, forward, capability)

\* Every Fire* call entering at head.
FireEntryAlwaysHead(st, op) == st.p.head

\* Where each Fire* call enters the chain, and the direction it moves in.
FireEntry(st, op) == IF op = "FireChannelWrite" THEN st.p.tail ELSE st.p.head

FireForward(op) == op # "FireChannelWrite"

FireCapability(op) ==
    CASE op = "FireChannelActive" -> "Active"
      [] op = "FireChannelRead" -> "Inbound"
      [] op = "FireChannelWrite" -> "Outbound"
      [] op = "FireChannelException" -> "Exception"
      [] op = "FireChannelInactive" -> "Inactive"
      [] op = "FireChannelEvent" -> "Event"

FireCall(st, op) == Traverse(st.ctx, FireEntry(st, op), FireForward(op), FireCapability(op))

(***************************************************************************)
(* The calls on the pipeline, as actions.                                  *)
(***************************************************************************)
Positions == -2..(MaxSize + 1)

Call(op, position, handlers, channel, err, visited) ==
    [op |-> op, position |-> position, handlers |-> handlers, channel |-> channel,
     err |-> err, visited |-> visited, pre |-> State, preServed |-> served,
     comp |-> {}, result |-> -1]

\* The record of a lookup: its argument and what it returned.
Lookup(op, position, comp, result) ==
    [Call(op, position, <<>>, NilChannel, NoErr, <<>>) EXCEPT !.comp = comp,
                                                              !.result = result]

PipelineInit ==
    /\ ctx = NewPipelineWith.ctx
    /\ p = NewPipelineWith.p
    /\ served = <<>>
    /\ last = [op |-> "NewPipelineWith", position |-> 0, handlers |-> <<>>,
               channel |-> NilChannel, err |-> NoErr, visited |-> <<>>,
               pre |-> NewPipelineWith, preServed |-> <<>>,
               comp |-> {}, result |-> -1]

AddFirst(handlers) ==
    /\ p.size + Len(handlers) <= MaxSize
    /\ LET r == AddFirstCall(State, handlers)
       IN  /\ ctx' = r.ctx
           /\ p' = r.p
           /\ last' = Call("AddFirst", 0, handlers, NilChannel, r.err, <<>>)
    /\ UNCHANGED <<served, bootstrapVars, exceptionVars>>

AddLast(handlers) ==
    /\ p.size + Len(handlers) <= MaxSize
    /\ LET r == AddLastCall(State, handlers)
       IN  /\ ctx' = r.ctx
           /\ p' = r.p
           /\ last' = Call("AddLast", 0, handlers, NilChannel, r.err, <<>>)
    /\ UNCHANGED <<served, bootstrapVars, exceptionVars>>

AddHandler(position, handlers) ==
    /\ p.size + Len(handlers) <= MaxSize
    /\ LET r == AddHandlerCall(State, position, handlers)
       IN  /\ ctx' = r.ctx
           /\ p' = r.p
           /\ last' = Call("AddHandler", position, handlers, NilChannel, r.err, <<>>)
    /\ UNCHANGED <<served, bootstrapVars, exceptionVars>>

ServeChannel(channel) ==
    LET r == ServeChannelCall(State, served, channel)
    IN  /\ p' = r.p
        /\ served' = r.served
        /\ last' = Call("ServeChannel", 0, <<>>, channel, r.err, <<>>)
        /\ UNCHANGED <<ctx, bootstrapVars, exceptionVars>>

\* The record of a Fire* call: the contexts the event passed through.
Fired(op) == Call(op, 0, <<>>, NilChannel, NoErr, FireCall(State, op))

FireChannelActive ==
    /\ last' = Fired("FireChannelActive")
    /\ UNCHANGED <<ctx, p, served, bootstrapVars, exceptionVars>>

FireChannelRead ==
    /\ last' = Fired("FireChannelRead")
    /\ UNCHANGED <<ctx, p, served, bootstrapVars, exceptionVars>>

FireChannelWrite ==
    /\ last' = Fired("FireChannelWrite")
    /\ UNCHANGED <<ctx, p, served, bootstrapVars, exceptionVars>>

FireChannelException ==
    /\ last' = Fired("FireChannelException")
    /\ UNCHANGED <<ctx, p, served, bootstrapVars, exceptionVars>>

FireChannelInactive ==
    /\ last' = Fired("FireChannelInactive")
    /\ UNCHANGED <<ctx, p, served, bootstrapVars, exceptionVars>>

FireChannelEvent ==
    /\ last' = Fired("FireChannelEvent")
    /\ UNCHANGED <<ctx, p, served, bootstrapVars, exceptionVars>>

\* A call of ContextAt(position); the pipeline is only read.
CallContextAt(position) ==
    /\ last' = Lookup("ContextAt", position, {}, ContextAt(position))
    /\ UNCHANGED <<ctx, p, served, bootstrapVars, exceptionVars>>

\* A call of IndexOf(comp).
CallIndexOf(comp) ==
    /\ last' = Lookup("IndexOf", 0, comp, IndexOf(State, comp))
    /\ UNCHANGED <<ctx, p, served, bootstrapVars, exceptionVars>>

\* A call of LastIndexOf(comp).
CallLastIndexOf(comp) ==
    /\ last' = Lookup("LastIndexOf", 0, comp, LastIndexOf(State, comp))
    /\ UNCHANGED <<ctx, p, served, bootstrapVars, exceptionVars>>

PipelineNext ==
    \/ \E handlers \in HandlerLists : AddFirst(handlers)
    \/ \E handlers \in HandlerLists : AddLast(handlers)
    \/ \E position \in Positions, handlers \in HandlerLists : AddHandler(position, handlers)
    \/ \E channel \in Channels \cup {NilChannel} : ServeChannel(channel)
    \/ FireChannelActive
    \/ FireChannelRead
    \/ FireChannelWrite
    \/ FireChannelException
    \/ FireChannelInactive
    \/ FireChannelEvent
    \/ \E position \in Positions : CallContextAt(position)
    \/ \E comp \in Comps : CallIndexOf(comp)
    \/ \E comp \in Comps : CallLastIndexOf(comp)

(***************************************************************************)
(* bootstrap.go and transport/tcp/factory.go                               *)
(***************************************************************************)
MaxOps == 5         \* Listen, Sync, Async, Close and Shutdown calls made in one run
MaxConns == 1       \* client connections that arrive
MaxDials == 1       \* Connect calls made in one run

NilListener == 0
NilAcceptor == 0
NilTransport == 0

\* The urls given to Listen: one that url.Parse accepts, one it rejects.
URLs == {"tcp://127.0.0.1:0", "%zz"}

\* transport.ParseOptions / withAddress: does parsing the url succeed?
ParseOptionsOk(url) == url # "%zz"

\* NewBootstrap: a live context and an empty registry.
\* nextID is the state of the channel-ID factory: the ids drawn so far.
NewBootstrap ==
    [cancelled |-> FALSE, listeners |-> [u \in URLs |-> NilListener], nextID |-> 0]

\* A call as it starts on its goroutine. prior, later and atStart record what
\* the call found when it started (the Sync calls made before on the listener;
\* whether a Close of the listener that closed a socket had returned; the
\* listeners with an open acceptor); opened, io and closedL what it has done:
\* the acceptors it opened, the sockets the Listener.Close call it is in has
\* closed, and the listeners whose acceptor a finished Listener.Close of it closed.
\* sub and aret are about the call of tcpAcceptor.Close it is in or made last:
\* whether an earlier Close of that acceptor had returned when it began, and
\* what it returned.
NewCall(op, async, l, pc) ==
    [op |-> op, async |-> async, l |-> l, pc |-> pc, ret |-> "running",
     callback |-> "none", a |-> NilAcceptor, t |-> NilTransport,
     seen |-> {}, startKeys |-> {},
     prior |-> IF op = "Sync"
               THEN Cardinality({g \in 1..Len(gor) : gor[g].op = "Sync" /\ gor[g].l = l})
               ELSE 0,
     later |-> op = "Close" /\ \E g \in 1..Len(gor) : l \in gor[g].closedL,
     atStart |-> IF op = "Shutdown"
                 THEN {k \in 1..Len(lsn) :
                         \E a \in 1..Len(acc) : acc[a].owner = k /\ acc[a].socket = "open"}
                 ELSE {},
     opened |-> {}, io |-> {}, closedL |-> {}, sub |-> FALSE, aret |-> "none"]

\* The call returns ret; an Async goroutine passes it to fn, "fn(l.Sync())".
Return(call, ret) ==
    [call EXCEPT !.pc = "done", !.ret = ret,
                 !.callback = IF call.async THEN ret ELSE "none"]

\* bootstrap.Listen: a new listener, stored in the registry under its url.
Listen(url) ==
    /\ Len(lsn) + Len(gor) < MaxOps
    /\ lsn' = Append(lsn, [url |-> url, options |-> "nil", acceptor |-> NilAcceptor])
    /\ bs' = [bs EXCEPT !.listeners[url] = Len(lsn) + 1]
    /\ UNCHANGED <<acc, tr, gor, pipelineVars, exceptionVars>>

\* Sync, up to the call of Listen: "if nil != l.acceptor { return duplicate
\* call }", then "l.options, err = transport.ParseOptions(...)", which only
\* this call reads.
SyncCheck(call) ==
    LET l == call.l
    IN  IF NilAcceptor # lsn[l].acceptor
        THEN /\ gor' = Append(gor, Return(call, "duplicate call Listener:Sync"))
             /\ UNCHANGED lsn
        ELSE /\ lsn' = [lsn EXCEPT ![l].options = lsn[l].url]
             /\ gor' = Append(gor, IF ParseOptionsOk(lsn[l].url)
                                   THEN [call EXCEPT !.pc = "SyncListen"]
                                   ELSE Return(call, "parse error"))

\* A call of listener.Sync on the caller's goroutine, entered.
Sync(l) ==
    /\ Len(lsn) + Len(gor) < MaxOps
    /\ SyncCheck(NewCall("Sync", FALSE, l, "SyncCheck"))
    /\ UNCHANGED <<bs, acc, tr, pipelineVars, exceptionVars>>

\* listener.Async: Sync on a goroutine of its own, entered.
Async(l) ==
    /\ Len(lsn) + Len(gor) < MaxOps
    /\ SyncCheck(NewCall("Sync", TRUE, l, "SyncCheck"))
    /\ UNCHANGED <<bs, acc, tr, pipelineVars, exceptionVars>>

\* tcpFactory.Listen: a tcpAcceptor over a listening socket, when net.Listen succeeds.
\* released counts the times the OS socket was released, returned the calls
\* of Close on the acceptor that have returned.
NewAcceptor(l) ==
    [listener |-> TRUE, socket |-> "open", owner |-> l, closes |-> 0,
     released |-> 0, returned |-> 0]

\* Sync: "l.acceptor, err = l.bs.transportFactory.Listen(l.options)".
\* Whether net.Listen succeeds is the environment's choice.
SyncListen(g, ok) ==
    /\ gor[g].pc = "SyncListen"
    /\ IF ok
       THEN /\ acc' = Append(acc, NewAcceptor(gor[g].l))
            /\ lsn' = [lsn EXCEPT ![gor[g].l].acceptor = Len(acc) + 1]
            /\ gor' = [gor EXCEPT ![g].pc = "SyncAccept",
                                  ![g].opened = @ \cup {Len(acc) + 1}]
       ELSE /\ lsn' = [lsn EXCEPT ![gor[g].l].acceptor = NilAcceptor]
            /\ gor' = [gor EXCEPT ![g] = Return(gor[g], "listen error")]
            /\ UNCHANGED acc
    /\ UNCHANGED <<bs, tr, pipelineVars, exceptionVars>>

\* A transport as tcpFactory.Connect or tcpAcceptor.Accept returns it, with
\* what serveTransport makes around it. afterCancel records whether the scope
\* was cancelled already when the transport was returned.
NoPipeline == [ctx |-> <<>>, p |-> [head |-> NilCtx, tail |-> NilCtx,
                                    channel |-> NilChannel, size |-> 0]]

NewTransport(origin, cancelled) ==
    [state |-> "open", origin |-> origin, afterCancel |-> cancelled, log |-> <<>>,
     cid |-> 0, channel |-> NilChannel, attachment |-> "nil", pipeline |-> NoPipeline,
     serving |-> <<>>, closeResult |-> "none"]

\* tcpAcceptor.Accept can return a connection while its socket is open.
AcceptorOpen(a) == acc[a].listener /\ acc[a].socket = "open"

\* Sync: "t, err := l.acceptor.Accept()". Accept blocks until a client
\* connects or the socket is closed.
SyncAccept(g) ==
    /\ gor[g].pc = "SyncAccept"
    /\ LET a == lsn[gor[g].l].acceptor
       IN  IF a = NilAcceptor
           THEN /\ gor' = [gor EXCEPT ![g] = Return(gor[g], "panic")]
                /\ UNCHANGED tr
           ELSE IF AcceptorOpen(a)
           THEN /\ Len(tr) < MaxConns
                /\ tr' = Append(tr, NewTransport("Accept", bs.cancelled))
                /\ gor' = [gor EXCEPT ![g].pc = "SyncSelect", ![g].t = Len(tr) + 1]
           ELSE /\ gor' = [gor EXCEPT ![g] = Return(gor[g], "accept error")]
                /\ UNCHANGED tr
    /\ UNCHANGED <<bs, lsn, acc, pipelineVars, exceptionVars>>

Attachments == {"nil", "att"}

\* bs.channelIDFactory(): a process-unique identifier per call.
channelIDFactory(b) == [id |-> b.nextID + 1, bs |-> [b EXCEPT !.nextID = @ + 1]]

\* bs.childInitializer(channel) / bs.clientInitializer(channel): the
\* collaborator populates channel.Pipeline().
Initializer(pipeline, childChannel) ==
    AddLastCall(pipeline, IF childChannel THEN <<"h1", "h2">> ELSE <<"h1">>)

\* A serveTransport that attaches the pipeline before the initializer runs.
serveTransportServeFirst(b, t, attachment, childChannel) ==
    LET pipeline == NewPipelineWith
        drawn == channelIDFactory(b)
        channel == ToString(drawn.id)
        made == <<"pipelineFactory", "channelIDFactory", "channelFactory">>
        attached == IF "nil" # attachment THEN Append(made, "SetAttachment") ELSE made
        srv == ServeChannelCall(pipeline, <<>>, channel)
        init == Initializer([ctx |-> pipeline.ctx, p |-> srv.p], childChannel)
    IN  [bs |-> drawn.bs,
         t  |-> [t EXCEPT !.state = "served",
                          !.log = attached \o <<"ServeChannel",
                                                IF childChannel THEN "childInitializer"
                                                ELSE "clientInitializer">>,
                          !.cid = drawn.id, !.channel = channel,
                          !.attachment = attachment,
                          !.pipeline = [ctx |-> init.ctx, p |-> init.p],
                          !.serving = srv.served]]

\* bootstrap.serveTransport(transport, attachment, childChannel): the
\* bootstrap and the transport after it, statement by statement. log is the
\* collaborators called, in order.
serveTransport(b, t, attachment, childChannel) ==
    LET pipeline == NewPipelineWith
        drawn == channelIDFactory(b)
        channel == ToString(drawn.id)
        made == <<"pipelineFactory", "channelIDFactory", "channelFactory">>
        attached == IF "nil" # attachment THEN Append(made, "SetAttachment") ELSE made
        init == Initializer(pipeline, childChannel)
        initialized == Append(attached, IF childChannel THEN "childInitializer"
                                        ELSE "clientInitializer")
        srv == ServeChannelCall([ctx |-> init.ctx, p |-> init.p], <<>>, channel)
    IN  [bs |-> drawn.bs,
         t  |-> [t EXCEPT !.state = "served",
                          !.log = Append(initialized, "ServeChannel"),
                          !.cid = drawn.id, !.channel = channel,
                          !.attachment = attachment,
                          !.pipeline = [ctx |-> init.ctx, p |-> srv.p],
                          !.serving = srv.served]]

\* A select that never finds the context done.
ContextDoneNever(b) == FALSE

\* "case <-l.bs.Context().Done()": is the bootstrap's context cancelled?
ContextDone(b) == b.cancelled

\* Sync: the select on the bootstrap's context after a successful Accept.
\* Whether t.Close() succeeds is the environment's choice.
SyncSelect(g, closeOk) ==
    /\ gor[g].pc = "SyncSelect"
    /\ IF ContextDone(bs)
       THEN LET ret == IF closeOk THEN "nil" ELSE "transport close error"
            IN  /\ tr' = [tr EXCEPT ![gor[g].t].state = "closed",
                                    ![gor[g].t].closeResult = ret]
                /\ gor' = [gor EXCEPT ![g] = Return(gor[g], ret)]
                /\ UNCHANGED bs
       ELSE LET s == serveTransport(bs, tr[gor[g].t], "nil", TRUE)
            IN  /\ tr' = [tr EXCEPT ![gor[g].t] = s.t]
                /\ bs' = s.bs
                /\ gor' = [gor EXCEPT ![g].pc = "SyncAccept"]
    /\ UNCHANGED <<lsn, acc, pipelineVars, exceptionVars>>

\* tcpFactory.Connect: the scheme check, the dial and applyOptions. The
\* outcome is the environment's choice; when applyOptions fails the
\* connection has been made and is returned beside the error.
DialOutcomes == {"ok", "dial error", "option error"}

\* A Connect that draws the channel id before it dials.
ConnectCallDrawsIdFirst(b, url, attachment, outcome) ==
    LET t == NewTransport("Connect", b.cancelled)
    IN  IF ~ParseOptionsOk(url)
        THEN [bs |-> b, t |-> <<>>, ret |-> "parse error"]
        ELSE IF outcome = "dial error"
        THEN [bs |-> channelIDFactory(b).bs, t |-> <<>>, ret |-> outcome]
        ELSE IF outcome = "option error"
        THEN [bs |-> channelIDFactory(b).bs, t |-> <<t>>, ret |-> outcome]
        ELSE LET s == serveTransport(b, t, attachment, FALSE)
             IN  [bs |-> s.bs, t |-> <<s.t>>, ret |-> "nil"]

\* bootstrap.Connect(url, attachment): the bootstrap after the call, the
\* transport the factory made (if any), and the error returned.
ConnectCall(b, url, attachment, outcome) ==
    LET t == NewTransport("Connect", b.cancelled)
    IN  IF ~ParseOptionsOk(url)
        THEN [bs |-> b, t |-> <<>>, ret |-> "parse error"]
        ELSE IF outcome = "dial error"
        THEN [bs |-> b, t |-> <<>>, ret |-> outcome]
        ELSE IF outcome = "option error"
        THEN [bs |-> b, t |-> <<t>>, ret |-> outcome]
        ELSE LET s == serveTransport(b, t, attachment, FALSE)
             IN  [bs |-> s.bs, t |-> <<s.t>>, ret |-> "nil"]

\* A call of bootstrap.Connect on the caller's goroutine.
Connect(url, attachment, outcome) ==
    /\ Len(lsn) + Len(gor) < MaxOps
    /\ Cardinality({g \in 1..Len(gor) : gor[g].op = "Connect"}) < MaxDials
    /\ LET r == ConnectCall(bs, url, attachment, outcome)
       IN  /\ bs' = r.bs
           /\ tr' = tr \o r.t
           /\ gor' = Append(gor, [Return(NewCall("Connect", FALSE, NilListener, "Connect"),
                                         r.ret)
                                    EXCEPT !.t = IF r.t = <<>> THEN NilTransport
                                                 ELSE Len(tr) + 1])
    /\ UNCHANGED <<lsn, acc, pipelineVars, exceptionVars>>

\* listener.Close returns ret: to its caller, or into the Range of Shutdown,
\* which drops the result and goes on.
CloseReturn(call, ret) ==
    LET done == [call EXCEPT !.closedL = IF call.io = {} THEN @ ELSE @ \cup {call.l}]
    IN  IF call.op = "Shutdown"
        THEN [done EXCEPT !.pc = "ShutdownRange"]
        ELSE [done EXCEPT !.pc = "done", !.ret = ret]

\* A panic ends the goroutine's call, whichever it is.
Panic(call) == [call EXCEPT !.pc = "done", !.ret = "panic"]

\* Close: "if l.acceptor != nil { ... } return nil", by a call on listener l.
CloseCheck(call, l) ==
    IF lsn[l].acceptor # NilAcceptor
    THEN [call EXCEPT !.pc = "CloseRemove"]
    ELSE CloseReturn(call, "nil")

\* A call of listener.Close on the caller's goroutine, entered.
Close(l) ==
    /\ Len(lsn) + Len(gor) < MaxOps
    /\ gor' = Append(gor, CloseCheck(NewCall("Close", FALSE, l, "CloseCheck"), l))
    /\ UNCHANGED <<bs, lsn, acc, tr, pipelineVars, exceptionVars>>

\* bootstrap.removeListener: delete whatever the registry holds under url.
removeListener(url) == [bs EXCEPT !.listeners[url] = NilListener]

\* Close: "l.bs.removeListener(l.url)".
CloseRemove(g) ==
    /\ gor[g].pc = "CloseRemove"
    /\ bs' = removeListener(lsn[gor[g].l].url)
    /\ gor' = [gor EXCEPT ![g].pc = "CloseAcceptor"]
    /\ UNCHANGED <<lsn, acc, tr, pipelineVars, exceptionVars>>

\* Close: "return l.acceptor.Close()", up to the test of tcpAcceptor.Close,
\* "if t.listener != nil". l.acceptor is read again here.
CloseAcceptor(g) ==
    /\ gor[g].pc = "CloseAcceptor"
    /\ LET a == lsn[gor[g].l].acceptor
       IN  IF a = NilAcceptor
           THEN /\ gor' = [gor EXCEPT ![g] = Panic(gor[g])]
                /\ UNCHANGED acc
           ELSE LET call == [gor[g] EXCEPT !.a = a, !.sub = acc[a].returned > 0,
                                           !.aret = "none"]
                IN  IF acc[a].listener
                    THEN /\ gor' = [gor EXCEPT ![g] = [call EXCEPT !.pc = "CloseSocket"]]
                         /\ UNCHANGED acc
                    ELSE /\ gor' = [gor EXCEPT ![g] =
                                      CloseReturn([call EXCEPT !.aret = "nil"], "nil")]
                         /\ acc' = [acc EXCEPT ![a].returned = @ + 1]
    /\ UNCHANGED <<bs, lsn, tr, pipelineVars, exceptionVars>>

\* net.TCPListener.Close on the acceptor's socket: releases an open socket;
\* fails on a nil listener and on a socket already closed.
SocketClose(a) ==
    IF ~a.listener THEN [acceptor |-> a, err |-> "close error"]
    ELSE [acceptor |-> [a EXCEPT !.socket = "closed", !.closes = @ + 1,
                                 !.released = IF a.socket = "open" THEN @ + 1 ELSE @],
          err |-> IF a.socket = "open" THEN "nil" ELSE "close error"]

\* A Close without "defer func() { t.listener = nil }()".
DeferredResetMissing(a) == a

\* tcpAcceptor.Close: "defer func() { t.listener = nil }()".
DeferredReset(a) == [a EXCEPT !.listener = FALSE]

\* tcpAcceptor.Close: "defer ...; return t.listener.Close()".
CloseSocket(g) ==
    /\ gor[g].pc = "CloseSocket"
    /\ LET a == gor[g].a
           r == SocketClose(acc[a])
       IN  /\ acc' = [acc EXCEPT ![a] = [DeferredReset(r.acceptor)
                                           EXCEPT !.returned = @ + 1]]
           /\ gor' = [gor EXCEPT ![g] =
                        CloseReturn([gor[g] EXCEPT !.io =
                                        IF acc[a].listener THEN @ \cup {a} ELSE @,
                                                  !.aret = r.err],
                                    r.err)]
    /\ UNCHANGED <<bs, lsn, tr, pipelineVars, exceptionVars>>

\* The keys the registry holds.
Registered == {u \in URLs : bs.listeners[u] # NilListener}

\* A call of bootstrap.Shutdown on the caller's goroutine, entered:
\* "bs.bootstrapCancel()", and Range starts on the registry.
Shutdown ==
    /\ Len(lsn) + Len(gor) < MaxOps
    /\ bs' = [bs EXCEPT !.cancelled = TRUE]
    /\ gor' = Append(gor, [NewCall("Shutdown", FALSE, NilListener, "ShutdownRange")
                             EXCEPT !.startKeys = Registered])
    /\ UNCHANGED <<lsn, acc, tr, pipelineVars, exceptionVars>>

\* Shutdown: one step of "bs.listeners.Range(...)". Range visits no key twice
\* and visits every key that is in the map from its start to its end; a key
\* stored meanwhile may or may not be visited. Each visit calls Close on the
\* listener found under the key.
ShutdownRange(g) ==
    /\ gor[g].pc = "ShutdownRange"
    /\ \/ \E u \in Registered \ gor[g].seen :
            LET l == bs.listeners[u]
                call == [gor[g] EXCEPT !.l = l, !.seen = @ \cup {u}, !.io = {},
                                       !.later = \E h \in 1..Len(gor) : l \in gor[h].closedL]
            IN  gor' = [gor EXCEPT ![g] = CloseCheck(call, l)]
       \/ /\ (gor[g].startKeys \cap Registered) \subseteq gor[g].seen
          /\ gor' = [gor EXCEPT ![g].pc = "done", ![g].ret = "nil"]
    /\ UNCHANGED <<bs, lsn, acc, tr, pipelineVars, exceptionVars>>

(***************************************************************************)
(* exception.go                                                            *)
(***************************************************************************)
MaxChain == 2       \* longest cause chain of an error value

Stacks == {"stack1", "stack2"}

\* The concrete types of the error values of the model. A *app.opError has
\* an "Unwrap() error" method, an *errors.errorString has none; the
\* exception struct of this package has one too.
ErrorTypes == {"*errors.errorString", "*app.opError"}

HasUnwrap(type) == type \in {"*app.opError", "netty.exception"}

\* An error value is its cause chain, outermost first: Unwrap of the k-th
\* cause yields the k+1-th, and nil at the last one.
Causes == [type : ErrorTypes, msg : {"refused", "timeout"}]

ErrorChains ==
    {c \in SeqsUpTo(Causes, MaxChain) :
        /\ c # <<>>
        /\ \A k \in 1..(Len(c) - 1) : HasUnwrap(c[k].type)}

\* A Go value handed to AsException, and the Exception it returns.
GoValue(tag, type, text, error, stack) ==
    [tag |-> tag, type |-> type, text |-> text, error |-> error, stack |-> stack]

NilValue == GoValue("nil", "nil", "<nil>", <<>>, "")

\* exception{error: err, stack: stack}; Error() is the cause's message.
exception(error, stack) == GoValue("Exception", "netty.exception", error[1].msg, error, stack)

ErrorValue(chain) == GoValue("error", chain[1].type, chain[1].msg, chain, "")

\* Values that are neither nil nor errors: a string and an int.
OtherValues == {GoValue("other", "string", "boom", <<>>, ""),
                GoValue("other", "int", "42", <<>>, "")}

GoValues ==
    {NilValue} \cup OtherValues
    \cup {ErrorValue(c) : c \in ErrorChains}
    \cup {exception(c, s) : c \in ErrorChains, s \in Stacks}

\* fmt.Errorf("%v", e): an *errors.errorString with e's default formatting.
Errorf(e) == <<[type |-> "*errors.errorString", msg |-> e.text]>>

\* An exception seen as an error: a cause with an Unwrap in front of its own.
AsError(e) == <<[type |-> e.type, msg |-> e.text]>> \o e.error

\* A type switch with "case error" in front of "case Exception": an
\* Exception is an error too, and is wrapped again.
AsExceptionErrorFirst(e, stack) ==
    CASE e.tag = "nil" -> NilValue
      [] e.tag = "Exception" -> exception(AsError(e), stack)
      [] e.tag = "error" -> exception(e.error, stack)
      [] OTHER -> exception(Errorf(e), stack)

\* AsException(e, stack): the type switch on e.
AsException(e, stack) ==
    CASE e.tag = "nil" -> NilValue
      [] e.tag = "Exception" -> e
      [] e.tag = "error" -> exception(e.error, stack)
      [] OTHER -> exception(Errorf(e), stack)

\* What PrintStackTrace writes, piece by piece.
Text(str) == [piece |-> "text", a |-> str, b |-> "", n |-> 0]

\* fmt.Sprintf("%T: %s", err, err.Error())
Entry(cause) == [piece |-> "entry", a |-> cause.type, b |-> cause.msg, n |-> 0]

\* "\n" + strings.Repeat("  ", i)
Indent(i) == [piece |-> "indent", a |-> "\n", b |-> "  ", n |-> i]

\* The loop of PrintStackTrace with err the k-th cause of chain (nil when
\* k > Len(chain)) and i the loop counter before "i++". err.Error() on a nil
\* err is a nil dereference: the call panics with what was written so far
\* left in the builder and nothing copied to the writer.
RECURSIVE PrintLoop(_, _, _, _)
PrintLoop(chain, k, i, sb) ==
    IF k > Len(chain) THEN [sb |-> sb, fault |-> "nil pointer dereference"]
    ELSE LET entry == Append(sb, Entry(chain[k]))
         IN  IF HasUnwrap(chain[k].type)
             THEN PrintLoop(chain, k + 1, i + 1, Append(entry, Indent(i + 1)))
             ELSE [sb |-> entry, fault |-> "none"]

\* PrintStackTrace(writer, msg...) of exception e: what reaches the writer,
\* and the fault the call ends with.
PrintStackTrace(e, msg) ==
    LET start == [k \in 1..Len(msg) |-> Text(msg[k])] \o <<Text("Error Traceback:\n")>>
        loop == PrintLoop(e.error, 1, 0, start)
    IN  IF loop.fault # "none" THEN [written |-> <<>>, fault |-> loop.fault]
        ELSE [written |-> loop.sb \o <<Text("\n"), Text(e.stack)>>, fault |-> "none"]

Prefixes == {<<>>, <<"msg1">>, <<"msg1", "msg2">>}

\* No call made yet.
ExceptionIdle ==
    exc = [op |-> "none", e |-> NilValue, stack |-> "", result |-> NilValue,
           stack2 |-> "", again |-> NilValue, msg |-> <<>>, written |-> <<>>,
           fault |-> "none"]

\* r := AsException(e, stack)
Wrap(e, stack) ==
    /\ exc.op = "none"
    /\ exc' = [exc EXCEPT !.op = "AsException", !.e = e, !.stack = stack,
                          !.result = AsException(e, stack)]
    /\ UNCHANGED <<pipelineVars, bootstrapVars>>

\* AsException(r, stack2) of the value r a call of AsException returned.
WrapAgain(stack2) ==
    /\ exc.op = "AsException"
    /\ exc' = [exc EXCEPT !.op = "AsExceptionAgain", !.stack2 = stack2,
                          !.again = AsException(exc.result, stack2)]
    /\ UNCHANGED <<pipelineVars, bootstrapVars>>

\* r.PrintStackTrace(writer, msg...) of an exception r made by AsException.
CallPrintStackTrace(msg) ==
    /\ exc.op = "AsException"
    /\ exc.result.type = "netty.exception"
    /\ LET r == PrintStackTrace(exc.result, msg)
       IN  exc' = [exc EXCEPT !.op = "PrintStackTrace", !.msg = msg,
                             !.written = r.written, !.fault = r.fault]
    /\ UNCHANGED <<pipelineVars, bootstrapVars>>

ExceptionNext ==
    \/ \E e \in GoValues, stack \in Stacks : Wrap(e, stack)
    \/ \E stack2 \in Stacks : WrapAgain(stack2)
    \/ \E msg \in Prefixes : CallPrintStackTrace(msg)

(***************************************************************************)
(* Specifications.                                                         *)
(***************************************************************************)
BootstrapIdle ==
    /\ bs = NewBootstrap
    /\ lsn = <<>>
    /\ acc = <<>>
    /\ tr = <<>>
    /\ gor = <<>>

PipelineSpecInit == PipelineInit /\ BootstrapIdle /\ ExceptionIdle

SpecPipeline == PipelineSpecInit /\ [][PipelineNext]_vars

BootstrapInit == BootstrapIdle /\ PipelineInit /\ ExceptionIdle

BootstrapNext ==
    \/ \E url \in URLs : Listen(url)
    \/ \E l \in 1..Len(lsn) : Sync(l)
    \/ \E l \in 1..Len(lsn) : Async(l)
    \/ \E l \in 1..Len(lsn) : Close(l)
    \/ Shutdown
    \/ \E g \in 1..Len(gor), ok \in BOOLEAN : SyncListen(g, ok)
    \/ \E g \in 1..Len(gor) : SyncAccept(g)
    \/ \E g \in 1..Len(gor), closeOk \in BOOLEAN : SyncSelect(g, closeOk)
    \/ \E url \in URLs, attachment \in Attachments, outcome \in DialOutcomes :
          Connect(url, attachment, outcome)
    \/ \E g \in 1..Len(gor) : CloseRemove(g)
    \/ \E g \in 1..Len(gor) : CloseAcceptor(g)
    \/ \E g \in 1..Len(gor) : CloseSocket(g)
    \/ \E g \in 1..Len(gor) : ShutdownRange(g)

SpecBootstrap == BootstrapInit /\ [][BootstrapNext]_vars

\* The steps goroutine g takes by itself once it is scheduled: every
\* statement of a call in progress but an Accept that waits for a client.
\* A client connecting is the environment's step, as is every new call.
AcceptWaits(g) ==
    /\ gor[g].pc = "SyncAccept"
    /\ lsn[gor[g].l].acceptor # NilAcceptor
    /\ AcceptorOpen(lsn[gor[g].l].acceptor)

GoroutineStep(g) ==
    /\ g \in 1..Len(gor)
    /\ \/ \E ok \in BOOLEAN : SyncListen(g, ok)
       \/ (~AcceptWaits(g) /\ SyncAccept(g))
       \/ \E closeOk \in BOOLEAN : SyncSelect(g, closeOk)
       \/ CloseRemove(g)
       \/ CloseAcceptor(g)
       \/ CloseSocket(g)
       \/ ShutdownRange(g)

\* The Go scheduler runs every goroutine that can run.
SpecBootstrapFair ==
    /\ SpecBootstrap
    /\ \A g \in 1..MaxOps : WF_vars(GoroutineStep(g))

ExceptionInit == ExceptionIdle /\ PipelineInit /\ BootstrapIdle

SpecException == ExceptionInit /\ [][ExceptionNext]_vars

(***************************************************************************)
(* Properties of the pipeline, checked under SpecPipeline.                 *)
(***************************************************************************)

\* The contexts reached from head along next links, head first.
RECURSIVE ChainFrom(_, _)
ChainFrom(node, fuel) ==
    IF node = NilCtx \/ fuel = 0 THEN <<>>
    ELSE <<node>> \o ChainFrom(ctx[node].next, fuel - 1)

Chain == ChainFrom(p.head, Len(ctx) + 1)

ChainHandlers == [i \in 1..Len(Chain) |-> ctx[Chain[i]].handler]

Valid(handlers) == \A i \in 1..Len(handlers) : CapsOf(handlers[i]) # {}

Failed == last.err # NoErr

\* C1: after any sequence of AddFirst, AddLast and AddHandler calls, failed
\* ones included, Size() >= 2, the head sentinel is at index 0 and the tail
\* sentinel at index Size()-1, the next links from head reach tail after
\* exactly Size()-1 links, and n.next.prev = n for every context n but tail.
C1_ChainIsConsistent ==
    /\ Size >= 2
    /\ ContextAt(0) = p.head
    /\ ctx[p.head].handler = "headHandler"
    /\ ContextAt(Size - 1) = p.tail
    /\ ctx[p.tail].handler = "tailHandler"
    /\ Len(Chain) = Size
    /\ \A i \in 1..Len(Chain) : (Chain[i] = p.tail) <=> (i = Size)
    /\ \A i \in 1..Len(Chain) :
         Chain[i] # p.tail =>
           /\ ctx[Chain[i]].next # NilCtx
           /\ ctx[ctx[Chain[i]].next].prev = Chain[i]
    /\ Len(ctx) = Size

\* A failed Add call on a pipeline that already holds two handlers.
C1_Witness ==
    /\ last.op \in {"AddFirst", "AddLast", "AddHandler"}
    /\ Failed
    /\ Size >= 4

\* C2: a fresh pipeline has Size() = 2; AddLast(h1..hn) with valid handlers
\* grows Size() by n, puts h1..hn in argument order right before the tail
\* sentinel, and every context that was in front of the tail keeps its index.
C2_AddLastAppendsInOrder ==
    /\ last.op = "NewPipelineWith" => Size = 2 /\ ChainHandlers = <<"headHandler", "tailHandler">>
    /\ (last.op = "AddLast" /\ Valid(last.handlers)) =>
         LET n == Len(last.handlers)
             old == last.pre.p.size
         IN  /\ last.err = NoErr
             /\ Size = old + n
             /\ \A i \in 1..n :
                  /\ ContextAt(old - 2 + i) # NilCtx
                  /\ ctx[ContextAt(old - 2 + i)].handler = last.handlers[i]
             /\ ContextAt(old + n - 1) = p.tail
             /\ \A j \in 0..(old - 2) : ContextAt(j) = ContextAtIn(last.pre, j)
             /\ (last.pre = NewPipelineWith) =>
                  ChainHandlers = <<"headHandler">> \o last.handlers \o <<"tailHandler">>

\* AddLast of two different handlers on a pipeline that holds a handler.
C2_Witness ==
    /\ last.op = "AddLast"
    /\ last.handlers = <<"h1", "h2">>
    /\ last.pre.p.size = 3
    /\ Size = 5

NoRepeats(seq) == \A i, j \in 1..Len(seq) : seq[i] = seq[j] => i = j

FireOps == {"FireChannelActive", "FireChannelRead", "FireChannelWrite",
            "FireChannelException", "FireChannelInactive", "FireChannelEvent"}

\* Every handler of the chain forwards the event of this Fire* call.
AllForward(op) ==
    \A i \in 1..Len(Chain) : Forwards(ctx[Chain[i]].handler, FireCapability(op))

\* C3: when every handler forwards, FireChannelRead, Active, Exception,
\* Inactive and Event visit the contexts at indices 0, 1, .., Size()-1 in that
\* order (head, A, B, C, tail), FireChannelWrite visits them at indices
\* Size()-1, .., 1, 0 (tail, C, B, A, head), and no context is visited twice.
C3_FireVisitsInChainOrder ==
    (last.op \in FireOps /\ AllForward(last.op)) =>
        /\ Len(last.visited) = Size
        /\ NoRepeats(last.visited)
        /\ \A i \in 1..Len(last.visited) :
             last.visited[i] = IF last.op = "FireChannelWrite"
                               THEN ContextAt(Size - i)
                               ELSE ContextAt(i - 1)
        /\ last.visited[1] = IF last.op = "FireChannelWrite" THEN p.tail ELSE p.head

\* FireChannelWrite on a chain [head, A, B, C, tail] built by different calls.
C3_Witness ==
    /\ last.op = "FireChannelWrite"
    /\ ChainHandlers = <<"headHandler", "h1", "h2", "h1", "tailHandler">>
    /\ Chain = <<1, 4, 3, 5, 2>>
    /\ last.visited = <<2, 5, 3, 4, 1>>

\* C4: the first ServeChannel(c) records c and has c begin serving; a
\* ServeChannel on a pipeline with a channel fails with a configuration error,
\* starts nothing and leaves Channel() as it was; no call changes a non-nil
\* Channel().
C4_ChannelAttachedOnce ==
    /\ last.pre.p.channel # NilChannel =>
         /\ Channel = last.pre.p.channel
         /\ served = last.preServed
    /\ (last.op = "ServeChannel" /\ last.pre.p.channel # NilChannel) =>
         last.err = ConfigErr("already attached channel", -1)
    /\ (last.op = "ServeChannel" /\ last.pre.p.channel = NilChannel
          /\ last.channel # NilChannel) =>
         /\ last.err = NoErr
         /\ Channel = last.channel
         /\ served = Append(last.preServed, last.channel)
    /\ Len(served) <= 1

\* A second ServeChannel, with another channel.
C4_Witness ==
    /\ last.op = "ServeChannel"
    /\ last.pre.p.channel = "c1"
    /\ last.channel = "c2"

\* C5: AddHandler(position, handlers...) with position >= Size() fails with
\* a configuration error and leaves chain and Size() unchanged.
C5_AddHandlerRejectsPositionBeyondSize ==
    (last.op = "AddHandler" /\ last.position >= last.pre.p.size) =>
        /\ last.err.kind \in {"invalid position", "unrecognized Handler"}
        /\ Valid(last.handlers) => last.err = ConfigErr("invalid position", last.position)
        /\ State = last.pre

\* AddHandler with position = Size() and with valid handlers.
C5_Witness ==
    /\ last.op = "AddHandler"
    /\ last.position = last.pre.p.size
    /\ last.pre.p.size = 3
    /\ last.handlers = <<"h1", "h2">>
    /\ last.err.kind = "invalid position"

\* C6: with valid handlers, AddHandler(-1, hs) and AddHandler(Size()-1, hs)
\* leave the pipeline in the state AddLast(hs) leaves it in.
C6_AddHandlerAtEndIsAddLast ==
    (/\ last.op = "AddHandler"
     /\ last.position \in {-1, last.pre.p.size - 1}
     /\ Valid(last.handlers)) =>
        /\ last.err = NoErr
        /\ State = [ctx |-> AddLastCall(last.pre, last.handlers).ctx,
                    p   |-> AddLastCall(last.pre, last.handlers).p]
        /\ Size = last.pre.p.size + Len(last.handlers)
        /\ ChainHandlers = SubSeq([i \in 1..last.pre.p.size |->
                                     last.pre.ctx[ContextAtIn(last.pre, i - 1)].handler],
                                  1, last.pre.p.size - 1)
                           \o last.handlers \o <<"tailHandler">>

\* AddHandler(-1, h1, h2) on a pipeline that holds a handler.
C6_Witness ==
    /\ last.op = "AddHandler"
    /\ last.position = -1
    /\ last.handlers = <<"h2", "h1">>
    /\ last.pre.p.size = 3
    /\ ~Failed

FirstUnrecognized(handlers) ==
    CHOOSE i \in 1..Len(handlers) :
        /\ CapsOf(handlers[i]) = {}
        /\ \A j \in 1..(i - 1) : CapsOf(handlers[j]) # {}

\* C7: an AddFirst, AddLast or AddHandler call with a handler that has none
\* of the six capabilities fails with a configuration error carrying the index
\* of the first such handler, and inserts nothing.
C7_UnrecognizedHandlerRejected ==
    (last.op \in {"AddFirst", "AddLast", "AddHandler"} /\ ~Valid(last.handlers)) =>
        /\ last.err = ConfigErr("unrecognized Handler", FirstUnrecognized(last.handlers) - 1)
        /\ State = last.pre

\* A valid handler in front of the offending one.
C7_Witness ==
    /\ last.op = "AddHandler"
    /\ last.handlers = <<"h1", "hNone">>
    /\ last.position = 1
    /\ last.pre.p.size = 3
    /\ last.err.index = 1

\* The indices of the chain whose handler satisfies comp.
Matches(comp) == {i \in 0..(Size - 1) : ChainHandlers[i + 1] \in comp}

\* C13: ContextAt(position) returns the context at that index when
\* 0 <= position < Size(), and the not-found result for every other position:
\* -1, every position >= Size(), and every other negative position.
C13_ContextAtNotFoundOutOfRange ==
    last.op = "ContextAt" =>
        last.result = IF 0 <= last.position /\ last.position < Size
                      THEN Chain[last.position + 1]
                      ELSE NilCtx

\* C14: IndexOf returns the smallest index in 0..Size()-1 (head = 0,
\* tail = Size()-1) whose handler satisfies the predicate, LastIndexOf the
\* largest, both -1 exactly when no handler of the chain satisfies it, and the
\* handler at a non-negative result satisfies the predicate.
C14_IndexOfFindsFirstAndLast ==
    last.op \in {"IndexOf", "LastIndexOf"} =>
        /\ (last.result = -1) <=> (Matches(last.comp) = {})
        /\ last.result # -1 =>
              /\ last.result \in Matches(last.comp)
              /\ ctx[ContextAt(last.result)].handler \in last.comp
              /\ \A i \in Matches(last.comp) :
                    IF last.op = "IndexOf" THEN last.result <= i ELSE last.result >= i

\* LastIndexOf of a handler that is in the chain twice.
C14_Witness ==
    /\ last.op = "LastIndexOf"
    /\ last.comp = {"h1"}
    /\ ChainHandlers = <<"headHandler", "h1", "h2", "h1", "tailHandler">>
    /\ last.result = 3

\* C16: for 0 <= position < Size()-1 and valid handlers h1..hn,
\* AddHandler(position, h1..hn) grows Size() by n and puts h1..hn in argument
\* order at indices position+1..position+n; the contexts at indices
\* <= position keep their index and those after it move up by n, in order.
C16_AddHandlerInsertsAfterPosition ==
    (/\ last.op = "AddHandler"
     /\ 0 <= last.position
     /\ last.position < last.pre.p.size - 1
     /\ Valid(last.handlers)) =>
        LET n == Len(last.handlers)
            old == last.pre.p.size
        IN  /\ last.err = NoErr
            /\ Size = old + n
            /\ \A i \in 1..n :
                 /\ ContextAt(last.position + i) > Len(last.pre.ctx)
                 /\ ctx[ContextAt(last.position + i)].handler = last.handlers[i]
            /\ \A j \in 0..last.position : ContextAt(j) = ContextAtIn(last.pre, j)
            /\ \A j \in (last.position + 1)..(old - 1) :
                 ContextAt(j + n) = ContextAtIn(last.pre, j)

\* AddHandler(1, h2, h1) between a handler and the tail sentinel.
C16_Witness ==
    /\ last.op = "AddHandler"
    /\ last.position = 1
    /\ last.handlers = <<"h2", "h1">>
    /\ last.pre.p.size = 3
    /\ ChainHandlers = <<"headHandler", "h1", "h2", "h1", "tailHandler">>

\* C20: AddFirst(h1..hn) with valid handlers grows Size() by n, leaves
\* hn..h1 at indices 1..n (the last-listed handler nearest head), and the
\* handlers that were there follow in their order, moved up by n.
C20_AddFirstReversesArguments ==
    (last.op = "AddFirst" /\ Valid(last.handlers)) =>
        LET n == Len(last.handlers)
            old == last.pre.p.size
        IN  /\ last.err = NoErr
            /\ Size = old + n
            /\ ContextAt(0) = p.head
            /\ \A i \in 1..n :
                 /\ ContextAt(i) > Len(last.pre.ctx)
                 /\ ctx[ContextAt(i)].handler = last.handlers[n + 1 - i]
            /\ \A j \in 1..(old - 1) : ContextAt(j + n) = ContextAtIn(last.pre, j)

\* AddFirst(h1, h2) on a pipeline that holds a handler.
C20_Witness ==
    /\ last.op = "AddFirst"
    /\ last.handlers = <<"h1", "h2">>
    /\ last.pre.p.size = 3
    /\ ChainHandlers = <<"headHandler", "h2", "h1", "h2", "tailHandler">>

(***************************************************************************)
(* Properties of the bootstrap and its listeners, checked under            *)
(* SpecBootstrap.                                                          *)
(***************************************************************************)
Calls == 1..Len(gor)

Listeners == 1..Len(lsn)

AcceptorsOf(l) == {a \in 1..Len(acc) : acc[a].owner = l}

\* C8: whatever the interleaving of the Sync calls on one Listener, only the
\* first of them opens an acceptor: at most one acceptor is ever opened per
\* Listener.
C8_AtMostOneAcceptorPerListener ==
    \A l \in Listeners : Cardinality(AcceptorsOf(l)) <= 1

\* The call is inside Listener.Close on listener l.
InClose(g, l) ==
    /\ gor[g].l = l
    /\ gor[g].pc \in {"CloseRemove", "CloseAcceptor", "CloseSocket"}

\* C9: when Shutdown returns, the scope is cancelled and every Listener that
\* had an open acceptor when Shutdown began (and that no other caller is in
\* the middle of closing) has its acceptor closed and is out of the registry.
C9_ShutdownClosesOpenListeners ==
    \A g \in Calls :
        (gor[g].op = "Shutdown" /\ gor[g].pc = "done" /\ gor[g].ret = "nil") =>
            /\ bs.cancelled
            /\ \A l \in gor[g].atStart :
                 (\A h \in Calls : ~InClose(h, l)) =>
                    /\ \A a \in AcceptorsOf(l) : acc[a].socket = "closed"
                    /\ bs.listeners[lsn[l].url] # l

\* C10: Close on a Listener that never had an acceptor returns no error and
\* does no I/O; once a Close of a Listener has closed its acceptor and
\* returned, every later Close of it returns no error and closes no acceptor.
C10_CloseIsIdempotent ==
    \A g \in Calls :
        gor[g].op = "Close" =>
            /\ AcceptorsOf(gor[g].l) = {} =>
                 /\ gor[g].pc = "done"
                 /\ gor[g].ret = "nil"
                 /\ gor[g].io = {}
            /\ gor[g].later =>
                 /\ gor[g].io = {}
                 /\ gor[g].pc = "done" => gor[g].ret = "nil"

Transports == 1..Len(tr)

\* The transports serveTransport has been run for.
Served == {t \in Transports : tr[t].log # <<>>}

\* serveTransport has made nothing around transport record t.
Bare(t) ==
    /\ t.log = <<>>
    /\ t.cid = 0
    /\ t.channel = NilChannel
    /\ t.pipeline = NoPipeline
    /\ t.serving = <<>>

\* C11: a Connect that returns an error (parse failure, or failure of the
\* factory's Connect) has drawn no channel id, created no Pipeline or Channel,
\* run no initializer and left the listener registry and the scope unchanged.
C11_ConnectFailureHasNoSideEffects ==
    [][(/\ Len(gor') = Len(gor) + 1
        /\ gor'[Len(gor')].op = "Connect"
        /\ gor'[Len(gor')].ret # "nil") =>
           /\ bs'.nextID = bs.nextID
           /\ bs'.listeners = bs.listeners
           /\ bs'.cancelled = bs.cancelled
           /\ lsn' = lsn
           /\ \A t \in 1..Len(tr') : IF t <= Len(tr) THEN tr'[t] = tr[t] ELSE Bare(tr'[t])
    ]_vars

\* A dial failure on a bootstrap that has a listener and has served an
\* accepted transport.
C11_Witness ==
    /\ \E g \in Calls : gor[g].op = "Connect" /\ gor[g].ret = "dial error"
    /\ bs.nextID = 1
    /\ Registered # {}

\* C15: over the Close calls on one acceptor the listening socket is released
\* exactly once, and every Close that begins after a Close of that acceptor
\* has returned is a no-op that returns no error.
C15_AcceptorCloseIsIdempotent ==
    /\ \A a \in 1..Len(acc) :
          /\ acc[a].released <= 1
          /\ acc[a].returned > 0 => (acc[a].released = 1 /\ acc[a].socket = "closed")
    /\ \A g \in Calls :
          gor[g].sub =>
              /\ gor[g].pc # "CloseSocket"
              /\ gor[g].aret = "nil"
              /\ gor[g].a \notin gor[g].io

\* A second Listener.Close, after the first has closed the acceptor.
C15_Witness ==
    \E g \in Calls :
        /\ gor[g].op = "Close"
        /\ gor[g].sub
        /\ gor[g].pc = "done"
        /\ acc[gor[g].a].returned = 2

\* The sequence without the elements equal to x.
RECURSIVE Without(_, _)
Without(seq, x) ==
    IF seq = <<>> THEN <<>>
    ELSE (IF Head(seq) = x THEN <<>> ELSE <<Head(seq)>>) \o Without(Tail(seq), x)

C18_AcceptAfterCancelIsClosed ==
    /\ \A t \in Transports :
          tr[t].origin = "Accept" =>
              /\ tr[t].afterCancel => (tr[t].state # "served" /\ Bare(tr[t]))
              /\ tr[t].state = "served" => ~tr[t].afterCancel
              /\ tr[t].state = "closed" => Bare(tr[t])
    /\ \A g \in Calls :
          gor[g].op = "Sync" =>
              /\ (gor[g].t # NilTransport /\ tr[gor[g].t].afterCancel) =>
                    /\ gor[g].pc \in {"SyncSelect", "done"}
                    /\ gor[g].pc = "done" =>
                          /\ tr[gor[g].t].state = "closed"
                          /\ gor[g].ret = tr[gor[g].t].closeResult
              /\ gor[g].ret = "accept error" =>
                    /\ gor[g].pc = "done"
                    /\ gor[g].t # NilTransport => tr[gor[g].t].state = "served"

\* Accept returns a transport after Shutdown has cancelled the scope, and the
\* close of the transport fails.
C18_Witness ==
    \E g \in Calls :
        /\ gor[g].op = "Sync"
        /\ gor[g].pc = "done"
        /\ gor[g].t # NilTransport
        /\ tr[gor[g].t].afterCancel
        /\ gor[g].ret = "transport close error"

\* Some call of Shutdown has returned.
ShutdownReturned == \E g \in Calls : gor[g].op = "Shutdown" /\ gor[g].pc = "done"

\* The Sync calls that had started when a Shutdown that has returned began
\* (the calls are in gor in the order they started), on a listener that no
\* other listener shares its url with.
SyncBeforeShutdown ==
    {g \in Calls :
        /\ gor[g].op = "Sync"
        /\ \A k \in Listeners : lsn[k].url = lsn[gor[g].l].url => k = gor[g].l
        /\ \E s \in Calls : gor[s].op = "Shutdown" /\ gor[s].pc = "done" /\ g < s}

\* C21: once Shutdown has returned, every Sync call that was interleaved with
\* it eventually returns and no acceptor it opened stays open (with fair
\* scheduling and no further client connections); a Sync that had started but
\* not opened its acceptor when Shutdown ran is not left blocked in Accept.
C21_SyncReturnsAfterShutdown ==
    [](ShutdownReturned =>
         <>(\A g \in SyncBeforeShutdown :
                /\ gor[g].pc = "done"
                /\ \A a \in gor[g].opened : acc[a].socket = "closed"))

\* Listener k is the entry the registry holds under its url.
InRegistry(b, k) == b.listeners[lsn[k].url] = k

\* This step is a statement of a Listener.Close call on listener l.
CloseStepOn(l) ==
    \E g \in Calls :
        /\ InClose(g, l)
        /\ gor'[g] # gor[g]

\* This step is the removeListener of a Listener.Close call on listener l.
RemoveStepOn(l) ==
    \E g \in Calls :
        /\ gor[g].l = l
        /\ gor[g].pc = "CloseRemove"
        /\ gor'[g].pc = "CloseAcceptor"

\* C22: Listener.Close changes the registry only by removing the Listener it
\* closes: the registry entry and the acceptor of every other Listener (one
\* made by a later Listen with the same url too) are as they were, and a
\* Listener is in the registry from the moment Listen returns it until its
\* own Close removes it.
C22_CloseRemovesOnlyItself ==
    [][/\ \A l, k \in Listeners :
            (CloseStepOn(l) /\ k # l) =>
                /\ InRegistry(bs, k) => InRegistry(bs', k)
                /\ lsn'[k].acceptor = lsn[k].acceptor
                /\ \A a \in AcceptorsOf(k) : acc'[a] = acc[a]
       /\ \A k \in Listeners :
            (InRegistry(bs, k) /\ ~RemoveStepOn(k)) => InRegistry(bs', k)
       /\ Len(lsn') > Len(lsn) => bs'.listeners[lsn'[Len(lsn')].url] = Len(lsn')
    ]_vars

(***************************************************************************)
(* Properties of exceptions, checked under SpecException.                  *)
(***************************************************************************)

\* C12: AsException(nil, s) returns no exception, and for every value e and
\* stacks s, s2, AsException(AsException(e, s), s2) is the value
\* AsException(e, s) returned: it keeps the original cause and the stack s.
C12_AsExceptionIsIdempotent ==
    /\ (exc.op # "none" /\ exc.e = NilValue) => exc.result = NilValue
    /\ exc.op = "AsExceptionAgain" =>
         /\ exc.again = exc.result
         /\ exc.e.tag \in {"error", "other"} => exc.again.stack = exc.stack
         /\ exc.e.tag = "error" => exc.again.error = exc.e.error
         /\ exc.e.tag = "Exception" => exc.again = exc.e

\* An error wrapped with one stack, and the result wrapped with another.
C12_Witness ==
    /\ exc.op = "AsExceptionAgain"
    /\ exc.e.tag = "error"
    /\ Len(exc.e.error) = 2
    /\ exc.stack = "stack1"
    /\ exc.stack2 = "stack2"
    /\ exc.again.stack = "stack1"

\* What PrintStackTrace is to write for a cause chain: one entry per cause,
\* outermost first, the k-th unwrap hop indented k levels.
RECURSIVE Traceback(_, _)
Traceback(chain, k) ==
    IF k > Len(chain) THEN <<>>
    ELSE (IF k = 1 THEN <<>> ELSE <<Indent(k - 1)>>)
         \o <<Entry(chain[k])>> \o Traceback(chain, k + 1)

\* C19: for every exception with a finite cause chain PrintStackTrace ends
\* without fault, having written the prefix messages, "Error Traceback:", one
\* entry per cause from the outermost to the innermost with the k-th unwrap
\* hop indented k levels, then the captured stack; also when the last cause
\* has an Unwrap that yields no further cause.
C19_PrintStackTraceWritesChain ==
    exc.op = "PrintStackTrace" =>
        /\ exc.fault = "none"
        /\ exc.written = [k \in 1..Len(exc.msg) |-> Text(exc.msg[k])]
                         \o <<Text("Error Traceback:\n")>>
                         \o Traceback(exc.result.error, 1)
                         \o <<Text("\n"), Text(exc.result.stack)>>

====
